---- MODULE Spec2Model ----
(***************************************************************************)
(* A model of tqueue.py: TurnQueue (clock, uid counter, binary heap of     *)
(* tickets kept by heapq) and the Schedulable mix-in (one current ticket   *)
(* per actor, lazy invalidation by identity).                              *)
(*                                                                         *)
(* A ticket is the NamedTuple (time, uid, actor, insert_time).  Python     *)
(* compares tickets by identity (`is`); a default-constructed queue hands  *)
(* out each uid once, so two tickets are the same object exactly when they *)
(* are the same record.                                                    *)
(*                                                                         *)
(* next() runs the handler in-line.  The handler is user code: between the *)
(* dispatch (next_call) and its end (handler_return / handler_raise) it    *)
(* may call any operation of the queue or of any actor.                    *)
(***************************************************************************)
EXTENDS Integers, Sequences, FiniteSets

\* ---- bounds ------------------------------------------------------------
Actors == {"a1", "a2", "a3"}
MaxInterval == 1
MaxUid == 3
MaxActorUid == 8
MaxLiveUid == 3
MaxLiveInterval == 2

Intervals == 0..MaxInterval

VARIABLES
    time,          \* TurnQueue.time
    next_uid,      \* TurnQueue.next_uid
    heap,          \* TurnQueue.heap, the list heapq maintains
    sched_ticket,  \* Schedulable.sched_ticket of every actor
    cur,           \* next_ticket of the next() call in progress, or None
    result,        \* what the last call did: operation, error, returned value
    last_time,     \* history: time of the ticket last handed to sched_on_turn
    turn_resched,  \* history: the active actor rescheduled during this turn
    turn_mutated   \* history: time, next_uid, heap or a sched_ticket changed
                   \*          since the next() call in progress was entered

vars == <<time, next_uid, heap, sched_ticket, cur, result, last_time,
          turn_resched, turn_mutated>>

\* What TurnQueue and the actors hold: the state a call can mutate.
queue == <<time, next_uid, heap, sched_ticket>>

\* ---- tickets -----------------------------------------------------------
\* Python's None, in the shape of a ticket so that it compares with one.
None == [time |-> -1, uid |-> -1, actor |-> "None", insert_time |-> -1]

Ticket(t, u, a, it) == [time |-> t, uid |-> u, actor |-> a, insert_time |-> it]

\* Faulty variant: the tuple with uid before time.
TicketLt_uid_first(x, y) == x.uid < y.uid

\* Faulty variant: ties on time broken by the newer uid.
TicketLt_newest_first(x, y) ==
    x.time < y.time \/ (x.time = y.time /\ x.uid > y.uid)

\* Tuple comparison of two tickets: time first, then uid.
TicketLt(x, y) == x.time < y.time \/ (x.time = y.time /\ x.uid < y.uid)

\* Faulty variant: "the actor is scheduled" instead of the identity test.
is_current_any(t, st) == t.actor \in DOMAIN st /\ st[t.actor] # None

\* `t is t.actor.sched_ticket`
is_current(t, st) == t.actor \in DOMAIN st /\ st[t.actor] = t

\* ---- heapq -------------------------------------------------------------
\* Positions are 0-based as in Python; h[p + 1] is heap[p].
RECURSIVE siftdown_loop(_, _, _, _)
siftdown_loop(h, startpos, pos, newitem) ==
    IF pos > startpos
    THEN LET parentpos == (pos - 1) \div 2
             parent == h[parentpos + 1]
         IN IF TicketLt(newitem, parent)
            THEN siftdown_loop([h EXCEPT ![pos + 1] = parent],
                               startpos, parentpos, newitem)
            ELSE [h EXCEPT ![pos + 1] = newitem]
    ELSE [h EXCEPT ![pos + 1] = newitem]

siftdown(h, startpos, pos) == siftdown_loop(h, startpos, pos, h[pos + 1])

RECURSIVE siftup_loop(_, _, _, _)
siftup_loop(h, startpos, pos, newitem) ==
    LET endpos == Len(h)
        childpos == 2 * pos + 1
        rightpos == childpos + 1
    IN IF childpos < endpos
       THEN LET c == IF rightpos < endpos
                        /\ ~TicketLt(h[childpos + 1], h[rightpos + 1])
                     THEN rightpos ELSE childpos
            IN siftup_loop([h EXCEPT ![pos + 1] = h[c + 1]],
                           startpos, c, newitem)
       ELSE siftdown([h EXCEPT ![pos + 1] = newitem], startpos, pos)

siftup(h, pos) == siftup_loop(h, pos, pos, h[pos + 1])

\* Faulty variant: the item put in front, nothing sifted.
heappush_front(h, item) == <<item>> \o h

heappush(h, item) == siftdown(Append(h, item), 0, Len(h))

\* Faulty variant: the last element removed, the first left in place.
heappop_last(h) == SubSeq(h, 1, Len(h) - 1)

\* The list after heappop; the caller reads the popped item as h[1].
heappop(h) ==
    LET lastelt == h[Len(h)]
        rest == SubSeq(h, 1, Len(h) - 1)
    IN IF rest # <<>> THEN siftup([rest EXCEPT ![1] = lastelt], 0) ELSE rest

\* Faulty variant: the new item pushed, the old heap[0] left in place.
heapreplace_push(h, item) == heappush(h, item)

heapreplace(h, item) == siftup([h EXCEPT ![1] = item], 0)

RECURSIVE heapify_loop(_, _)
heapify_loop(h, i) == IF i < 0 THEN h ELSE heapify_loop(siftup(h, i), i - 1)

\* Faulty variant: the filtered list left as it is.
heapify_none(h) == h

heapify(h) == IF h = <<>> THEN h ELSE heapify_loop(h, (Len(h) \div 2) - 1)

\* ---- TurnQueue, pure parts ---------------------------------------------
\* The list comprehension of clean(): the current tickets, in list order.
RECURSIVE keep_current(_, _)
keep_current(h, st) ==
    IF h = <<>> THEN <<>>
    ELSE IF is_current(h[1], st)
         THEN <<h[1]>> \o keep_current(Tail(h), st)
         ELSE keep_current(Tail(h), st)

\* Faulty variant: peek() without the loop.
peek_heap_no_drop(h, st) == h

\* The while loop of peek(): the heap once the leading tickets that are not
\* current have been dropped.  An empty result is the IndexError of heap[0].
RECURSIVE peek_heap(_, _)
peek_heap(h, st) ==
    IF h = <<>> THEN h
    ELSE IF ~is_current(h[1], st) THEN peek_heap(heappop(h), st)
         ELSE h

\* Faulty variant: the clock taken from the last field of the ticket.
dispatch_time_insert(ticket) == ticket.insert_time

\* `self.time, _, actor, _ = next_ticket`
dispatch_time(ticket) == ticket.time

\* Faulty variant: "the actor is still scheduled" instead of the identity test.
did_not_update_any(actor_ticket, next_ticket) == actor_ticket # None

\* `actor.sched_ticket is next_ticket`, the check after the handler.
did_not_update(actor_ticket, next_ticket) == actor_ticket = next_ticket

\* ---- Schedulable, pure parts -------------------------------------------
\* Faulty variant: the scheduled time stored as insert_time too.
new_ticket_insert_is_time(a, t, uid, now) == Ticket(t, uid, a, t)

\* Faulty variant: the uid read after the counter was incremented.
new_ticket_uid_after(a, t, uid, now) == Ticket(t, uid + 1, a, now)

\* __new_ticket(time), with the queue's next_uid and time passed in.
new_ticket(a, t, uid, now) == Ticket(t, uid, a, now)

\* sched_time_passed and sched_time_left of a scheduled actor.
sched_time_passed(a) == time - sched_ticket[a].insert_time

sched_time_left(a) == sched_ticket[a].time - time

Res(op, err, val, truth) ==
    [op |-> op, err |-> err, val |-> val, truth |-> truth]

Init ==
    /\ time = 0
    /\ next_uid = 0
    /\ heap = <<>>
    /\ sched_ticket = [a \in Actors |-> None]
    /\ cur = None
    /\ result = Res("init", "none", None, FALSE)
    /\ last_time = -1
    /\ turn_resched = FALSE
    /\ turn_mutated = FALSE

\* ---- operations --------------------------------------------------------
\* The history of a call made while a handler runs (cur # None) or not.
in_turn_history ==
    /\ turn_mutated' = (cur # None /\ (turn_mutated \/ queue' # queue))
    /\ UNCHANGED <<cur, last_time>>

\* Faulty variant: an actor that is already scheduled is refused.
sched_schedule_once(a, interval) ==
    /\ IF sched_ticket[a] # None
       THEN /\ result' = Res("sched_schedule", "RuntimeError", None, FALSE)
            /\ UNCHANGED <<next_uid, heap, sched_ticket>>
       ELSE LET ticket == new_ticket(a, time + interval, next_uid, time)
            IN /\ sched_ticket' = [sched_ticket EXCEPT ![a] = ticket]
               /\ heap' = heappush(heap, ticket)
               /\ next_uid' = next_uid + 1
               /\ result' = Res("sched_schedule", "none", ticket, FALSE)
    /\ UNCHANGED <<time, turn_resched>>
    /\ in_turn_history

\* Schedulable.sched_schedule(interval) on actor a.
sched_schedule(a, interval) ==
    /\ LET ticket == new_ticket(a, time + interval, next_uid, time)
       IN /\ sched_ticket' = [sched_ticket EXCEPT ![a] = ticket]
          /\ heap' = heappush(heap, ticket)
          /\ result' = Res("sched_schedule", "none", ticket, FALSE)
    /\ next_uid' = next_uid + 1
    /\ UNCHANGED <<time, turn_resched>>
    /\ in_turn_history

\* Faulty variant: __new_ticket called before the check, so that a failing
\* call has already advanced next_uid.
sched_reschedule_ticket_first(a, interval) ==
    /\ next_uid' = next_uid + 1
    /\ LET ticket == new_ticket(a, time + interval, next_uid, time)
       IN IF heap = <<>>
          THEN /\ result' = Res("sched_reschedule", "IndexError", None, FALSE)
               /\ UNCHANGED <<heap, sched_ticket, turn_resched>>
          ELSE IF sched_ticket[a] # heap[1]
          THEN /\ result' = Res("sched_reschedule", "RuntimeError", None, FALSE)
               /\ UNCHANGED <<heap, sched_ticket, turn_resched>>
          ELSE /\ sched_ticket' = [sched_ticket EXCEPT ![a] = ticket]
               /\ heap' = heapreplace(heap, ticket)
               /\ turn_resched' = (turn_resched \/ (cur # None /\ cur.actor = a))
               /\ result' = Res("sched_reschedule", "none", ticket, FALSE)
    /\ UNCHANGED time
    /\ in_turn_history

\* Faulty variant: the interval ignored, the new ticket due at once.
sched_reschedule_now(a, interval) ==
    /\ IF heap = <<>>
       THEN /\ result' = Res("sched_reschedule", "IndexError", None, FALSE)
            /\ UNCHANGED <<next_uid, heap, sched_ticket, turn_resched>>
       ELSE IF sched_ticket[a] # heap[1]
       THEN /\ result' = Res("sched_reschedule", "RuntimeError", None, FALSE)
            /\ UNCHANGED <<next_uid, heap, sched_ticket, turn_resched>>
       ELSE LET ticket == new_ticket(a, time, next_uid, time)
            IN /\ sched_ticket' = [sched_ticket EXCEPT ![a] = ticket]
               /\ heap' = heapreplace(heap, ticket)
               /\ next_uid' = next_uid + 1
               /\ turn_resched' = (turn_resched \/ (cur # None /\ cur.actor = a))
               /\ result' = Res("sched_reschedule", "none", ticket, FALSE)
    /\ UNCHANGED time
    /\ in_turn_history

\* Schedulable.sched_reschedule(interval) on actor a.
sched_reschedule(a, interval) ==
    /\ IF heap = <<>>
       THEN \* heap[0] of an empty list
            /\ result' = Res("sched_reschedule", "IndexError", None, FALSE)
            /\ UNCHANGED <<next_uid, heap, sched_ticket, turn_resched>>
       ELSE IF sched_ticket[a] # heap[1]
       THEN /\ result' = Res("sched_reschedule", "RuntimeError", None, FALSE)
            /\ UNCHANGED <<next_uid, heap, sched_ticket, turn_resched>>
       ELSE LET ticket == new_ticket(a, time + interval, next_uid, time)
            IN /\ sched_ticket' = [sched_ticket EXCEPT ![a] = ticket]
               /\ heap' = heapreplace(heap, ticket)
               /\ next_uid' = next_uid + 1
               /\ turn_resched' = (turn_resched \/ (cur # None /\ cur.actor = a))
               /\ result' = Res("sched_reschedule", "none", ticket, FALSE)
    /\ UNCHANGED time
    /\ in_turn_history

\* `actor.sched_ticket = None`, the documented way to leave the schedule.
clear(a) ==
    /\ sched_ticket[a] # None
    /\ sched_ticket' = [sched_ticket EXCEPT ![a] = None]
    /\ result' = Res("clear", "none", None, FALSE)
    /\ UNCHANGED <<time, next_uid, heap, turn_resched>>
    /\ in_turn_history

\* TurnQueue.peek().
peek ==
    /\ heap' = peek_heap(heap, sched_ticket)
    /\ result' = IF heap' = <<>>
                 THEN Res("peek", "IndexError", None, FALSE)
                 ELSE Res("peek", "none", heap'[1], FALSE)
    /\ UNCHANGED <<time, next_uid, sched_ticket, turn_resched>>
    /\ in_turn_history

\* Faulty variant: __bool__ sets the clock to the time of the ticket it finds.
bool_sets_clock ==
    /\ heap' = peek_heap(heap, sched_ticket)
    /\ result' = Res("bool", "none", None, heap' # <<>>)
    /\ time' = IF heap' = <<>> THEN time ELSE dispatch_time(heap'[1])
    /\ UNCHANGED <<next_uid, sched_ticket, turn_resched>>
    /\ in_turn_history

\* TurnQueue.__bool__().
bool ==
    /\ heap' = peek_heap(heap, sched_ticket)
    /\ result' = Res("bool", "none", None, heap' # <<>>)
    /\ UNCHANGED <<time, next_uid, sched_ticket, turn_resched>>
    /\ in_turn_history

\* TurnQueue.clean().
clean ==
    /\ heap' = heapify(keep_current(heap, sched_ticket))
    /\ result' = Res("clean", "none", None, FALSE)
    /\ UNCHANGED <<time, next_uid, sched_ticket, turn_resched>>
    /\ in_turn_history

\* Faulty variant: next() pops the ticket it hands to sched_on_turn.
next_call_extract ==
    /\ cur = None
    /\ LET peeked == peek_heap(heap, sched_ticket)
       IN IF peeked = <<>>
          THEN /\ heap' = peeked
               /\ result' = Res("next", "IndexError", None, FALSE)
               /\ UNCHANGED <<time, cur, last_time, turn_mutated>>
          ELSE LET next_ticket == peeked[1]
               IN /\ heap' = heappop(peeked)
                  /\ time' = dispatch_time(next_ticket)
                  /\ cur' = next_ticket
                  /\ last_time' = next_ticket.time
                  /\ turn_mutated' = TRUE
                  /\ result' = Res("sched_on_turn", "none", next_ticket, FALSE)
    /\ UNCHANGED <<next_uid, sched_ticket, turn_resched>>

\* Faulty variant: next() takes heap[0] without the lazy skip of peek().
next_call_no_peek ==
    /\ cur = None
    /\ IF heap = <<>>
       THEN /\ result' = Res("next", "IndexError", None, FALSE)
            /\ UNCHANGED <<time, cur, last_time, turn_mutated>>
       ELSE LET next_ticket == heap[1]
            IN /\ time' = dispatch_time(next_ticket)
               /\ cur' = next_ticket
               /\ last_time' = next_ticket.time
               /\ turn_mutated' = (time' # time)
               /\ result' = Res("sched_on_turn", "none", next_ticket, FALSE)
    /\ UNCHANGED <<next_uid, heap, sched_ticket, turn_resched>>

\* TurnQueue.next() up to the call of actor.sched_on_turn(next_ticket).
next_call ==
    /\ cur = None
    /\ heap' = peek_heap(heap, sched_ticket)
    /\ IF heap' = <<>>
       THEN /\ result' = Res("next", "IndexError", None, FALSE)
            /\ UNCHANGED <<time, cur, last_time, turn_mutated>>
       ELSE LET next_ticket == heap'[1]
            IN /\ time' = dispatch_time(next_ticket)
               /\ cur' = next_ticket
               /\ last_time' = next_ticket.time
               /\ turn_mutated' = (time' # time \/ heap' # heap)
               /\ result' = Res("sched_on_turn", "none", next_ticket, FALSE)
    /\ UNCHANGED <<next_uid, sched_ticket, turn_resched>>

\* sched_on_turn returns; next() checks that the actor updated its schedule.
handler_return ==
    /\ cur # None
    /\ result' = IF did_not_update(sched_ticket[cur.actor], cur)
                 THEN Res("next", "RuntimeError", cur, FALSE)
                 ELSE Res("next", "none", cur, FALSE)
    /\ cur' = None
    /\ turn_resched' = FALSE
    /\ turn_mutated' = FALSE
    /\ UNCHANGED <<time, next_uid, heap, sched_ticket, last_time>>

\* sched_on_turn lets an exception escape; next() propagates it unchecked.
handler_raise ==
    /\ cur # None
    /\ result' = Res("next", "HandlerError", cur, FALSE)
    /\ cur' = None
    /\ turn_resched' = FALSE
    /\ turn_mutated' = FALSE
    /\ UNCHANGED <<time, next_uid, heap, sched_ticket, last_time>>

\* Any call in any order; at most MaxUid tickets are ever created.
Next ==
    \/ \E a \in Actors, i \in Intervals :
            next_uid < MaxUid /\ sched_schedule(a, i)
    \/ \E a \in Actors, i \in Intervals :
            sched_reschedule(a, i) /\ next_uid' <= MaxUid
    \/ \E a \in Actors : clear(a)
    \/ peek
    \/ bool
    \/ clean
    \/ next_call
    \/ handler_return
    \/ handler_raise

Spec == Init /\ [][Next]_vars

\* ---- the repeating actors of test_tqueue.py ---------------------------
\* Actor(speed=...): the speeds of test_actors, and one between them.
Speed(a) == CASE a = "a1" -> 3 [] a = "a2" -> 5 [] OTHER -> 4

\* Actor.__init__: the actor schedules itself by its speed, once.
Actor_init(a) ==
    /\ cur = None
    /\ sched_ticket[a] = None
    /\ sched_schedule(a, Speed(a))

\* Actor.sched_on_turn: three assertions, then sched_reschedule(speed).
Actor_sched_on_turn ==
    /\ cur # None
    /\ result.op = "sched_on_turn"
    /\ LET self == cur.actor
       IN IF /\ sched_ticket[self] # None
             /\ time = sched_ticket[self].time
             /\ sched_ticket[self].time = cur.time
             /\ Speed(self) = cur.time - cur.insert_time
          THEN sched_reschedule(self, Speed(self))
          ELSE handler_raise

\* Actor.sched_on_turn ends: it returns, or the error of its
\* sched_reschedule escapes.
Actor_end ==
    /\ cur # None
    /\ result.op = "sched_reschedule"
    /\ IF result.err = "none" THEN handler_return ELSE handler_raise

\* test_actors: actors are constructed and the driver calls next(); at most
\* MaxActorUid tickets are ever created.
NextActors ==
    \/ \E a \in Actors : Actor_init(a) /\ next_uid' <= MaxActorUid
    \/ next_call
    \/ Actor_sched_on_turn /\ next_uid' <= MaxActorUid
    \/ Actor_end

SpecActors == Init /\ [][NextActors]_vars

\* ---- a driver loop over handlers that obey the protocol ----------------
\* Every interval is at least 1.
LiveIntervals == 1..MaxLiveInterval

\* Between turns the program schedules an actor, again or for the first time.
Live_schedule(a, i) == cur = None /\ sched_schedule(a, i)

\* Between turns the program cancels an actor.
Live_cancel(a) == cur = None /\ clear(a)

\* A handler, before it updates its own schedule, schedules another actor.
Live_handler_schedule(b, i) ==
    /\ cur # None
    /\ sched_ticket[cur.actor] = cur
    /\ b # cur.actor
    /\ sched_schedule(b, i)

\* A handler, before it updates its own schedule, cancels another actor.
Live_handler_cancel(b) ==
    /\ cur # None
    /\ sched_ticket[cur.actor] = cur
    /\ b # cur.actor
    /\ clear(b)

\* The handler's duty: sched_reschedule, once, or sched_ticket = None.
Live_handler_reschedule(i) ==
    /\ cur # None
    /\ sched_ticket[cur.actor] = cur
    /\ sched_reschedule(cur.actor, i)

Live_handler_clear ==
    /\ cur # None
    /\ sched_ticket[cur.actor] = cur
    /\ clear(cur.actor)

\* The handler returns once it has updated its schedule.
Live_handler_return ==
    /\ cur # None
    /\ sched_ticket[cur.actor] # cur
    /\ handler_return

\* The handler's duty, one way or the other.
Live_handler_update ==
    \/ \E i \in LiveIntervals :
            Live_handler_reschedule(i) /\ next_uid' <= MaxLiveUid
    \/ Live_handler_clear

NextLive ==
    \/ \E a \in Actors, i \in LiveIntervals :
            Live_schedule(a, i) /\ next_uid' <= MaxLiveUid
    \/ \E a \in Actors : Live_cancel(a)
    \/ \E b \in Actors, i \in LiveIntervals :
            Live_handler_schedule(b, i) /\ next_uid' <= MaxLiveUid
    \/ \E b \in Actors : Live_handler_cancel(b)
    \/ next_call
    \/ Live_handler_update
    \/ Live_handler_return

\* The driver's loop condition: between turns, with a current ticket in
\* the heap.
Live_driver_runs ==
    /\ cur = None
    /\ \E a \in Actors : /\ sched_ticket[a] # None
                         /\ \E k \in 1..Len(heap) : heap[k] = sched_ticket[a]

\* A handler is running and has not yet updated its schedule.
Live_handler_pending == cur # None /\ sched_ticket[cur.actor] = cur

\* Weak fairness of the three steps of a turn.  The driver keeps calling
\* next() while the queue is not empty, and a handler that was called goes
\* on to update its schedule: for these two the enabling condition is
\* written out.  A handler that has updated its schedule returns.
SpecLive ==
    /\ Init
    /\ [][NextLive]_vars
    /\ ([]<>(~Live_driver_runs) \/ []<><<next_call>>_vars)
    /\ ([]<>(~Live_handler_pending) \/ []<><<Live_handler_update>>_vars)
    /\ WF_vars(Live_handler_return)

\* ---- properties --------------------------------------------------------
HeapSet(h) == {h[i] : i \in 1..Len(h)}

\* This step is next() handing a ticket (cur') to sched_on_turn.
Dispatches == cur = None /\ cur' # None

\* This step is a call of next() that was not inside a handler.
NextCalled == cur = None /\ result'.op \in {"next", "sched_on_turn"}

\* Ticket t is the current ticket of its actor.
Valid(t) == \E a \in Actors : t.actor = a /\ sched_ticket[a] = t

\* A current ticket is in the heap: the scheduler holds a valid ticket.
HasValid == \E a \in Actors :
    sched_ticket[a] # None /\ sched_ticket[a] \in HeapSet(heap)

\* C1: the times of the tickets handed to sched_on_turn never decrease:
\* each dispatched ticket's time is at least the time of the one before it.
ChronologicalOrder == [][Dispatches => cur'.time >= last_time]_vars

\* A ticket created after an earlier dispatch is dispatched at a later time.
ChronologicalOrderWitness ==
    /\ cur # None
    /\ cur.insert_time > 0
    /\ cur.time > cur.insert_time

\* C2: in the state next() hands a ticket to sched_on_turn, no older (smaller
\* uid) current ticket has the same time: same-time tickets run in creation
\* order.
FifoTieBreak ==
    result.op = "sched_on_turn" =>
        \A a \in Actors :
            (sched_ticket[a] # None /\ sched_ticket[a].time = cur.time)
                => sched_ticket[a].uid >= cur.uid

\* Just dispatched, with two younger current tickets of other actors due at
\* the same tick, one of them created with interval 0.
FifoTieBreakWitness ==
    /\ cur # None
    /\ result.op = "sched_on_turn"
    /\ \E b, c \in Actors :
        /\ b # c
        /\ sched_ticket[b] # None /\ sched_ticket[c] # None
        /\ sched_ticket[b].time = cur.time /\ sched_ticket[c].time = cur.time
        /\ sched_ticket[b].uid > cur.uid /\ sched_ticket[c].uid > cur.uid
        /\ sched_ticket[c].insert_time = sched_ticket[c].time

\* C3: a dispatch sets the clock to the dispatched ticket's time, and no
\* step makes the clock smaller.
ClockMonotonicity ==
    [][/\ time' >= time
       /\ (Dispatches => time' = cur'.time)]_vars

\* A dispatch that moved the clock forward.
ClockMonotonicityWitness ==
    /\ cur # None
    /\ result.op = "sched_on_turn"
    /\ time = cur.time
    /\ time > cur.insert_time

\* C4: a ticket that is not its actor's current ticket is never handed to
\* sched_on_turn, never returned by peek() and never makes __bool__ true,
\* and a ticket lying in the heap never becomes current (again).
LazyInvalidation ==
    [][/\ Dispatches => Valid(cur')
       /\ (result'.op = "peek" /\ result'.err = "none")
            => Valid(result'.val)
       /\ (result'.op = "bool" /\ result'.truth) => HasValid
       /\ \A a \in Actors :
            (sched_ticket'[a] # sched_ticket[a] /\ sched_ticket'[a] # None)
                => sched_ticket'[a] \notin HeapSet(heap)]_vars

\* A handler runs while a superseded or cancelled ticket is still in the heap.
LazyInvalidationWitness ==
    /\ cur # None
    /\ \E i \in 1..Len(heap) : ~Valid(heap[i])
    /\ \E i \in 1..Len(heap) : Valid(heap[i])

\* C5: when the handler returns, next() raises RuntimeError exactly when the
\* actor's current ticket is still the dispatched one; after a reschedule or
\* a clear it returns normally.
EndOfTurnCheck ==
    [][(cur # None /\ cur' = None /\ result'.err # "HandlerError") =>
        /\ result'.op = "next"
        /\ result'.err = "RuntimeError" <=> sched_ticket[cur.actor] = cur
        /\ (turn_resched \/ sched_ticket[cur.actor] = None)
              => result'.err = "none"]_vars

\* next() has raised the end-of-turn RuntimeError.
EndOfTurnCheckWitness ==
    /\ result.op = "next"
    /\ result.err = "RuntimeError"
    /\ cur = None

\* C6 (as claimed): a sched_reschedule call on an actor other than the one
\* whose turn is being processed, or on any actor outside of a turn, fails
\* and leaves that actor's ticket in place.
RescheduleWrongActorFails ==
    [][\A a \in Actors : \A i \in Intervals :
        (sched_reschedule(a, i) /\ (cur = None \/ cur.actor # a))
            => (result'.err # "none" /\ sched_ticket'[a] = sched_ticket[a])]_vars

\* C7 (as claimed): once the active actor has rescheduled during its turn,
\* another sched_reschedule call on it in the same turn fails.
RescheduleTwiceFails ==
    [][\A i \in Intervals :
        (cur # None /\ turn_resched /\ sched_reschedule(cur.actor, i))
            => result'.err # "none"]_vars

\* C8: __bool__ is true exactly when a current ticket is in the heap,
\* peek() and next() raise IndexError exactly when none is, and a call that
\* finds none changes neither the clock, next_uid nor any actor's current
\* ticket and starts no handler.
EmptinessReporting ==
    [][/\ result'.op = "bool" => (result'.truth <=> HasValid)
       /\ result'.op = "peek" => (result'.err = "IndexError" <=> ~HasValid)
       /\ NextCalled => (result'.err = "IndexError" <=> ~HasValid)
       /\ (\/ result'.op = "bool" /\ ~result'.truth
           \/ result'.op = "peek" /\ result'.err = "IndexError"
           \/ NextCalled /\ result'.err = "IndexError")
            => UNCHANGED <<time, next_uid, sched_ticket, cur>>]_vars

\* __bool__ has answered False for a queue that has been handed tickets.
EmptinessReportingWitness ==
    /\ result.op = "bool"
    /\ ~result.truth
    /\ next_uid > 1

\* C9 (as claimed): a call that fails has changed nothing: peek() and next()
\* with IndexError, sched_reschedule with its error, and next() with the
\* end-of-turn RuntimeError leave time, next_uid, heap and every
\* sched_ticket as they were when the call was entered.
NoPartialFailureAsClaimed ==
    [][/\ (result'.op \in {"peek", "sched_reschedule"} /\ result'.err # "none")
            => UNCHANGED queue
       /\ (NextCalled /\ result'.err = "IndexError") => UNCHANGED queue
       /\ (cur # None /\ cur' = None /\ result'.err = "RuntimeError")
            => (~turn_mutated /\ UNCHANGED queue)]_vars

\* C9 (amended): a failing sched_reschedule changes nothing; a peek() or
\* next() failing with IndexError leaves time, next_uid and every
\* sched_ticket unchanged and empties the heap of its stale tickets; when
\* next() fails with the end-of-turn error the clock is the dispatched
\* ticket's time, that ticket is still current and at heap[0], and the
\* failing check itself changes nothing.
NoPartialFailure ==
    [][/\ (result'.op = "sched_reschedule" /\ result'.err # "none")
            => UNCHANGED queue
       /\ ((result'.op = "peek" \/ NextCalled) /\ result'.err = "IndexError")
            => /\ UNCHANGED <<time, next_uid, sched_ticket>>
               /\ heap' = <<>>
               /\ \A t \in HeapSet(heap) : ~Valid(t)
       /\ (cur # None /\ cur' = None /\ result'.err = "RuntimeError")
            => /\ UNCHANGED queue
               /\ time = cur.time
               /\ Valid(cur)
               /\ heap # <<>> /\ heap[1] = cur]_vars

\* peek() has failed on a queue that had been handed tickets.
NoPartialFailureWitness ==
    /\ result.op = "peek"
    /\ result.err = "IndexError"
    /\ next_uid > 0
    /\ heap = <<>>

\* C10: for every scheduled actor, time passed plus time left is the
\* ticket's interval and neither is negative, so the progress of a ticket
\* with a positive interval lies between 0 and 1.
ProgressBounds ==
    \A a \in Actors :
        sched_ticket[a] # None =>
            LET n == sched_ticket[a].time - sched_ticket[a].insert_time
            IN /\ sched_time_passed(a) + sched_time_left(a) = n
               /\ sched_time_passed(a) >= 0
               /\ sched_time_left(a) >= 0
               /\ n > 0 => (0 <= sched_time_passed(a) /\ sched_time_passed(a) <= n)

\* One actor at the end of a positive interval, another at the start of one.
ProgressBoundsWitness ==
    \E a, b \in Actors :
        /\ sched_ticket[a] # None /\ sched_ticket[b] # None
        /\ sched_ticket[a].time > sched_ticket[a].insert_time
        /\ sched_ticket[b].time > sched_ticket[b].insert_time
        /\ sched_time_passed(a) = sched_ticket[a].time - sched_ticket[a].insert_time
        /\ sched_time_passed(b) = 0
        /\ time > 0

\* C11: with actors that always reschedule by their own speed, the heap
\* holds exactly the actors' current tickets, one per scheduled actor and
\* nothing stale, no call of theirs fails, and at each turn the clock is the
\* ticket's time and the ticket's interval is the actor's speed.
RepeatingActorsNoLeak ==
    /\ Len(heap) = Cardinality({a \in Actors : sched_ticket[a] # None})
    /\ \A i \in 1..Len(heap) : sched_ticket[heap[i].actor] = heap[i]
    /\ \A a \in Actors : sched_ticket[a] # None =>
            sched_ticket[a].time - sched_ticket[a].insert_time = Speed(a)
    /\ result.err \notin {"RuntimeError", "HandlerError"}
    /\ result.op = "sched_on_turn" =>
            /\ sched_ticket[cur.actor] = cur
            /\ time = cur.time
            /\ cur.time - cur.insert_time = Speed(cur.actor)

\* All three actors scheduled, each of them rescheduled at least once, and
\* another turn starting.
RepeatingActorsNoLeakWitness ==
    /\ result.op = "sched_on_turn"
    /\ \A a \in Actors : sched_ticket[a] # None /\ sched_ticket[a].insert_time > 0
    /\ Len(heap) = 3

\* The heap invariant of heapq: no item is smaller than its parent.
IsHeap(h) == \A i \in 2..Len(h) : ~TicketLt(h[i], h[i \div 2])

\* The ticket a next() or peek() on heap h would find, None if there is none.
NextTicket(h) ==
    LET p == peek_heap(h, sched_ticket) IN IF p = <<>> THEN None ELSE p[1]

\* C12: clean() leaves in the heap exactly the tickets that were current,
\* each once and in heap order, changes neither the clock, next_uid nor any
\* sched_ticket, and the ticket the next next() dispatches is the same as
\* without the call.
Purge ==
    [][result'.op = "clean" =>
        /\ HeapSet(heap') = {t \in HeapSet(heap) : Valid(t)}
        /\ Len(heap') = Cardinality(HeapSet(heap'))
        /\ IsHeap(heap')
        /\ UNCHANGED <<time, next_uid, sched_ticket, cur>>
        /\ NextTicket(heap') = NextTicket(heap)]_vars

\* clean() has left two current tickets of the three that were created.
PurgeWitness ==
    /\ result.op = "clean"
    /\ Len(heap) = 2
    /\ next_uid = 3

\* Actor a is the one whose turn is being processed, its ticket untouched.
Active(a) == cur # None /\ cur.actor = a /\ sched_ticket[a] = cur

Held == HeapSet(heap) \cup ({sched_ticket[a] : a \in Actors} \ {None})

\* C14: a ticket is created with insert_time equal to the clock and a time
\* not before it; its uid is greater than the uid of every ticket created
\* earlier and smaller than next_uid, which never decreases; so the uids of
\* the tickets held are pairwise distinct.
TicketInvariants ==
    [][/\ (result'.op \in {"sched_schedule", "sched_reschedule"}
           /\ result'.err = "none") =>
            /\ result'.val.insert_time = time
            /\ result'.val.time >= result'.val.insert_time
            /\ result'.val.uid >= next_uid
            /\ \A t \in Held : t.uid < result'.val.uid
            /\ result'.val.uid < next_uid'
            /\ result'.val \in HeapSet(heap')
       /\ next_uid' >= next_uid
       /\ heap' # heap => \A i \in 1..Len(heap') :
            /\ heap'[i].uid < next_uid'
            /\ heap'[i].time >= heap'[i].insert_time
            /\ \A j \in 1..Len(heap') :
                    heap'[i].uid = heap'[j].uid => heap'[i] = heap'[j]]_vars

\* A ticket created after the clock has moved, with a positive interval.
TicketInvariantsWitness ==
    /\ result.op \in {"sched_schedule", "sched_reschedule"}
    /\ result.err = "none"
    /\ result.val.insert_time > 0
    /\ result.val.time > result.val.insert_time
    /\ result.val.uid = 2

\* C15: in the state in which next() calls sched_on_turn(ticket), the ticket
\* is the current ticket of its actor, it is heap[0], no current ticket is
\* due earlier (or as early with a smaller uid), and the clock equals the
\* ticket's time.
HandlerEntry ==
    result.op = "sched_on_turn" =>
        /\ cur # None
        /\ result.val = cur
        /\ sched_ticket[cur.actor] = cur
        /\ heap # <<>>
        /\ heap[1] = cur
        /\ time = cur.time
        /\ \A a \in Actors : sched_ticket[a] # None =>
            \/ sched_ticket[a].time > cur.time
            \/ /\ sched_ticket[a].time = cur.time
               /\ sched_ticket[a].uid >= cur.uid

\* A handler entered after stale tickets were skipped and the clock moved,
\* with another actor still waiting.
HandlerEntryWitness ==
    /\ result.op = "sched_on_turn"
    /\ turn_mutated
    /\ cur.time > cur.insert_time
    /\ cur.uid > 0
    /\ \E a \in Actors : a # cur.actor /\ sched_ticket[a] # None

\* C16 as stated: the dispatched ticket is not in the heap while its handler
\* runs, nor after next() has returned.
DispatchExtractsAsClaimed ==
    /\ cur # None => cur \notin HeapSet(heap)
    /\ (result.op = "next" /\ result.val # None) =>
            result.val \notin HeapSet(heap)

\* C16, as the code behaves: next() peeks and does not pop.  While the
\* handler runs and the dispatched ticket is still its actor's current
\* ticket, that ticket is heap[0]; and when next() raises RuntimeError
\* because the actor did not update its schedule, or the handler's own
\* exception, with the ticket still current, the ticket is still heap[0].
DispatchKeepsTicket ==
    /\ (cur # None /\ sched_ticket[cur.actor] = cur) =>
            heap # <<>> /\ heap[1] = cur
    /\ (/\ result.op = "next"
        /\ result.val # None
        /\ sched_ticket[result.val.actor] = result.val) =>
            heap # <<>> /\ heap[1] = result.val

\* next() has returned RuntimeError after a handler that scheduled another
\* actor and left its own ticket alone.
DispatchKeepsTicketWitness ==
    /\ result.op = "next"
    /\ result.err = "RuntimeError"
    /\ sched_ticket[result.val.actor] = result.val
    /\ Len(heap) >= 2
    /\ \E a \in Actors : /\ a # result.val.actor
                         /\ sched_ticket[a] # None
                         /\ sched_ticket[a].insert_time = result.val.time
                         /\ result.val.time > 0

\* C17: the clock is changed only by a step of next() that hands a ticket to
\* sched_on_turn; every other operation leaves it unchanged (a next() that
\* finds no valid ticket included).
ClockFrame ==
    [][/\ time' # time => (Dispatches /\ result'.op = "sched_on_turn")
       /\ result'.op \in {"sched_schedule", "sched_reschedule", "clear",
                          "peek", "bool", "clean", "next"} => time' = time]_vars

\* A non-dispatching operation on a queue whose clock has moved and whose
\* first current ticket is due later than the clock.
ClockFrameWitness ==
    /\ result.op \in {"peek", "bool", "clean"}
    /\ time > 0
    /\ heap # <<>>
    /\ sched_ticket[heap[1].actor] = heap[1]
    /\ heap[1].time > time

\* C18: every actor with a current ticket has that ticket in the heap, at
\* exactly one position.
NoLostActor ==
    \A a \in Actors : sched_ticket[a] # None =>
        Cardinality({i \in 1..Len(heap) : heap[i] = sched_ticket[a]}) = 1

\* After a lazy drop or a clean: two actors hold current tickets, the heap
\* holds exactly those two, and a third ticket has been removed from it.
NoLostActorWitness ==
    /\ result.op \in {"peek", "bool", "clean"}
    /\ Len(heap) = 2
    /\ next_uid = 3
    /\ \A i \in 1..Len(heap) : sched_ticket[heap[i].actor] = heap[i]

\* C19: while the dispatched ticket is still its actor's current ticket, a
\* call of that actor's sched_reschedule succeeds, whatever the handler did
\* before: it installs the new ticket and takes the dispatched one out of
\* the heap.
ActiveRescheduleSucceeds ==
    [][\A i \in Intervals :
        (Active(cur.actor) /\ sched_reschedule(cur.actor, i)) =>
            /\ result'.err = "none"
            /\ sched_ticket'[cur.actor] = result'.val
            /\ result'.val.time = cur.time + i
            /\ cur \notin HeapSet(heap')
            /\ result'.val \in HeapSet(heap')]_vars

\* The active actor rescheduled itself after its handler had scheduled
\* another actor with interval 0, at a clock the dispatch had advanced.
ActiveRescheduleSucceedsWitness ==
    /\ cur # None
    /\ result.op = "sched_reschedule"
    /\ result.err = "none"
    /\ sched_ticket[cur.actor] = result.val
    /\ cur.time > cur.insert_time
    /\ \E b \in Actors :
        /\ b # cur.actor
        /\ sched_ticket[b] # None
        /\ sched_ticket[b].insert_time = cur.time
        /\ sched_ticket[b].time = cur.time
        /\ sched_ticket[b].uid > cur.uid
        /\ sched_ticket[b].uid < result.val.uid

\* The actors whose current ticket is due now and runs before ticket t.
Ahead(t) ==
    {a \in Actors : /\ sched_ticket[a] # None
                    /\ sched_ticket[a] # t
                    /\ sched_ticket[a].time = time
                    /\ \/ sched_ticket[a].time < t.time
                       \/ sched_ticket[a].uid < t.uid}

\* What is left to do before the tickets ahead of t that are due now are
\* out of its way: three steps a turn (call, update, return).
Rank(t) ==
    3 * Cardinality(Ahead(t))
        + (IF cur = None THEN 0
           ELSE IF sched_ticket[cur.actor] = cur THEN -1 ELSE 1)

\* Actor a keeps ticket t over this step, and t is not being run.
Waits(a) ==
    /\ sched_ticket[a] # None
    /\ sched_ticket'[a] = sched_ticket[a]
    /\ cur # sched_ticket[a]
    /\ cur' # sched_ticket[a]

\* Some actor's current ticket is the one with uid u.
HoldsUid(u) == \E a \in Actors : sched_ticket[a].uid = u

\* C20: with intervals of at least 1, handlers that reschedule or clear, and
\* a driver that keeps calling next(), every current ticket is eventually
\* handed to sched_on_turn unless it stops being current first.  A waiting
\* ticket is never overdue, and no step puts it further from its turn: the
\* pair (time left, Rank) never grows, and it shrinks with every call of
\* next(), every update by a handler and every return.
NoStarvation ==
    /\ \A u \in 0..(MaxLiveUid - 1) :
        HoldsUid(u) ~> (cur.uid = u \/ ~HoldsUid(u))
    /\ [][\A a \in Actors : Waits(a) =>
            LET t == sched_ticket[a]
                left == t.time - time
                left_after == t.time - time'
                moved == \/ cur' # cur
                         \/ (cur # None
                             /\ sched_ticket'[cur.actor] # sched_ticket[cur.actor])
            IN /\ left >= 0
               /\ left_after >= 0
               /\ \/ left_after < left
                  \/ /\ left_after = left
                     /\ Rank(t)' <= Rank(t)
                     /\ moved => Rank(t)' < Rank(t)]_vars

\* A ticket is run after a younger ticket of another actor ran at an
\* earlier time and was rescheduled for a later one.
NoStarvationWitness ==
    /\ cur # None
    /\ result.op = "sched_on_turn"
    /\ cur.time > cur.insert_time + 1
    /\ \E b \in Actors :
        /\ b # cur.actor
        /\ sched_ticket[b] # None
        /\ sched_ticket[b].uid > cur.uid + 1
        /\ sched_ticket[b].insert_time > cur.insert_time
        /\ sched_ticket[b].insert_time < cur.time

====
